---- MODULE Spec2Model ----
(***************************************************************************)
(* A model of image-platform (atop0914/image-platform).                    *)
(*                                                                         *)
(*   - package generator: ImageGenerator.GenerateAll, the concurrent       *)
(*     fan-out over every registered PlatformGenerator (SpecFanOut and     *)
(*     FairFanOut);                                                        *)
(*   - cmd/server, first revision: handleGenerate with the sequential      *)
(*     first-success loop over getEnabledPlatforms (SpecSeq);              *)
(*   - cmd/server, current revision: loadConfig, handleGenerate,           *)
(*     generateImage and its three adapters, the two task pollers          *)
(*     included (SpecServer);                                              *)
(*   - cmd/server, current revision: the artifact files written by         *)
(*     downloadAndSave and the images table behind the generate, moderate  *)
(*     and delete handlers (SpecStore);                                    *)
(*   - package generator and cmd/server together: every entry point that   *)
(*     returns a generation outcome, GenerateSingle included               *)
(*     (SpecOutcomes);                                                     *)
(*   - package publisher: Manager.Register (SpecRegistry) and the          *)
(*     server's handlePublish over the registry (SpecPublish);             *)
(*   - cmd/server, current revision, with every platform switched on: the  *)
(*     adapters and their pollers under a fair scheduler (SpecPoller and   *)
(*     FairPoller);                                                        *)
(*   - cmd/server, current revision: the generate, moderate, delete and    *)
(*     publish handlers over one images table (SpecGate);                  *)
(*   - package publisher: Manager.PublishAll (SpecPublishAll).             *)
(*                                                                         *)
(* Remote services are the environment: every HTTP exchange is an action   *)
(* whose reply is chosen with \E among the replies the code distinguishes. *)
(* The file system and the database accept what is written to them where   *)
(* the code discards their errors (os.MkdirAll, os.WriteFile, db.Create in *)
(* cmd/server); where the code checks the error, the failure is a reply.   *)
(***************************************************************************)
EXTENDS Integers, Sequences, FiniteSets, TLC

VARIABLES
    \* ---- package generator (fan-out) ----
    generators,   \* ImageGenerator.generators: key -> [Name]
    gpc,          \* position of GenerateAll's own goroutine
    spawned,      \* keys the range loop of GenerateAll has already visited
    wg,           \* sync.WaitGroup counter
    wpc,          \* key -> position of that key's worker goroutine
    wres,         \* key -> the worker's local `result`
    resultsChan,  \* buffered channel contents (FIFO)
    chanClosed,   \* close(resultsChan) has run
    results,      \* the slice GenerateAll returns
    genCalls,     \* key -> number of generator.Generate invocations
    single,       \* the *GenerateResult GenerateSingle returned (Nil or <<r>>)
    \* ---- cmd/server: configuration ----
    yaml,         \* platforms section of the configuration file, as parsed
    osEnv,        \* key -> value of the platform's credential environment variable
    cfg,          \* cfg.Platforms once loadConfig has returned
    \* ---- cmd/server: one generate request ----
    h,            \* frame of handleGenerate and of the adapter it calls
    result,       \* *GenerateResult returned by generateImage (Nil or <<r>>)
    resp,         \* the JSON response written by the handler
    \* ---- cmd/server, first revision: sequential first-success loop ----
    h1,           \* frame of the first revision's handleGenerate
    prevAttempts, \* provider keys attempted, in order, by the previous sequential run
    \* ---- cmd/server: artifact files and the images table ----
    files,        \* the file system under cfg.ImageGen.OutputDir: path -> bytes
    records,      \* the images table: id -> ImageRecord
    nextID,       \* the table's next auto-increment id
    last,         \* the request handled last, with what the handler did for it
    \* ---- package publisher and handlePublish ----
    mgr,          \* Manager.platforms: PlatformType -> Platform
    regLog,       \* the adapters passed to Register so far, in order
    pub           \* frame of handlePublish

fanVars == <<generators, gpc, spawned, wg, wpc, wres, resultsChan, chanClosed,
             results, genCalls, single>>
cfgVars == <<yaml, osEnv, cfg>>
srvVars == <<h, result, resp>>
seqVars == <<h1, prevAttempts>>
storeVars == <<files, records, nextID, last>>
pubVars == <<mgr, regLog, pub>>

vars == <<fanVars, cfgVars, srvVars, seqVars, storeVars, pubVars>>

----------------------------------------------------------------------------
(* Bounds *)

\* Largest number of platforms handed to generator.New.
MaxProviders == 3

----------------------------------------------------------------------------
(* Values shared by the three programs *)

\* A nil *GenerateResult; a non-nil one is the one-element tuple <<r>>.
Nil == <<>>

\* No response written yet.
NoResponse == [status |-> 0, error |-> ""]

\* Platform keys of the configuration file (the README's four platforms) and
\* the platform field of a generate request: a configured key, a key the
\* configuration does not hold, or no key at all.
PlatformKeys == {"siliconflow", "openai", "aliyun", "modelscope"}
RequestPlatforms == PlatformKeys \cup {"unknown", ""}

\* The handler frame between two requests.
\* No status poll has been answered yet.
NoReply == [err |-> FALSE, status |-> "none", hasURL |-> FALSE]

IdleFrame ==
    [pc |-> "idle", Platform |-> "", i |-> 0, dir |-> "", cause |-> "none",
     remote |-> {}, polls |-> 0, okSeen |-> 0, failSeen |-> 0, out |-> "none",
     taskID |-> "", polled |-> {}, reply |-> NoReply, slept |-> 0,
     posts |-> 0, answer |-> "none", gets |-> 0, writes |-> 0]

IdleFrame1 ==
    [pc |-> "idle", Platform |-> "", remaining |-> {}, attempts |-> <<>>]

FanUnused ==
    /\ generators = <<>>
    /\ gpc = "off"
    /\ spawned = {}
    /\ wg = 0
    /\ wpc = <<>>
    /\ wres = <<>>
    /\ resultsChan = <<>>
    /\ chanClosed = FALSE
    /\ results = <<>>
    /\ genCalls = <<>>
    /\ single = <<>>

ServerUnused ==
    /\ yaml = <<>>
    /\ osEnv = <<>>
    /\ cfg = <<>>
    /\ h = IdleFrame
    /\ result = Nil
    /\ resp = NoResponse

SeqUnused ==
    /\ h1 = IdleFrame1
    /\ prevAttempts = <<>>

\* No request handled yet.
NoRequest ==
    [op |-> "none", n |-> 0, platform |-> "", model |-> "", sent |-> <<>>,
     fetch |-> "none", path |-> <<>>, data |-> <<>>, wrote |-> "none",
     result |-> <<>>, code |-> 0]

\* The frame of handlePublish between two requests.
IdlePublish ==
    [pc |-> "idle", imageID |-> 0, requested |-> <<>>, record |-> <<>>,
     platformsToUse |-> <<>>, i |-> 0, results |-> <<>>, calls |-> <<>>,
     code |-> 0]

StoreUnused ==
    /\ files = <<>>
    /\ records = <<>>
    /\ nextID = 1
    /\ last = NoRequest

PublishUnused ==
    /\ mgr = <<>>
    /\ regLog = <<>>
    /\ pub = IdlePublish

----------------------------------------------------------------------------
(* cmd/server: configuration *)

\* What a platform entry of the file can say, and what the environment holds.
YamlEntries == [Enabled : BOOLEAN, APIKey : {"", "yaml-key"}]
Yamls == [PlatformKeys -> YamlEntries]
Envs == [PlatformKeys -> {"", "env-key"}]

\* loadConfig, lines 805-810: a non-empty environment variable sets the key and
\* switches the platform on; otherwise the entry stays as the file has it.
loadPlatforms_envOnlyKey(y, e) ==
    [k \in DOMAIN y |->
        IF e[k] # ""
        THEN [Enabled |-> y[k].Enabled, APIKey |-> e[k]]
        ELSE y[k]]

loadPlatforms(y, e) ==
    [k \in DOMAIN y |->
        IF e[k] # ""
        THEN [Enabled |-> TRUE, APIKey |-> e[k]]
        ELSE y[k]]

\* getEnabledPlatforms: the keys whose entry is switched on and holds a key.
getEnabledPlatforms(c) == {k \in DOMAIN c : c[k].Enabled /\ c[k].APIKey # ""}

\* PlatformConfig.Name: the display name the file gives the platform.
PlatformName(k) == <<"name", k>>

InitConfig ==
    /\ yaml \in Yamls
    /\ osEnv \in Envs
    /\ cfg = <<>>
    /\ h = IdleFrame
    /\ result = Nil
    /\ resp = NoResponse
    /\ FanUnused
    /\ StoreUnused
    /\ PublishUnused
    /\ SeqUnused

\* main, line 517: cfg, err = loadConfig(*configPath).
loadConfig ==
    /\ yaml # <<>>
    /\ cfg = <<>>
    /\ cfg' = loadPlatforms(yaml, osEnv)
    /\ UNCHANGED <<yaml, osEnv, srvVars, fanVars, seqVars, storeVars, pubVars>>

NextConfig == loadConfig

SpecConfig == InitConfig /\ [][NextConfig]_vars

\* The configurations a started server can hold.
LoadedConfigs == {loadPlatforms(y, e) : y \in Yamls, e \in Envs}

----------------------------------------------------------------------------
(* cmd/server, current revision: one generate request *)

\* generateAliyunImage, line 973, and generateModelScopeImage, line 1055.
AliyunMaxRetries == 30
ModelScopeMaxRetries == 60

\* time.Sleep(2 * time.Second), line 975, and time.Sleep(3 * time.Second),
\* line 1057: the seconds slept before each status request.
AliyunInterval == 2
ModelScopeInterval == 3
Interval_same(platform) == AliyunInterval
Interval(platform) ==
    IF platform = "aliyun" THEN AliyunInterval ELSE ModelScopeInterval

\* What a task-creation call can bring back: a transport error, or a body
\* whose task_id is the identifier the provider assigned, or is empty (absent,
\* or a body that does not parse).
TaskIDOf(platform) == IF platform = "aliyun" THEN "task-a" ELSE "task-m"

SubmitReplies(platform) ==
    {[err |-> TRUE, taskID |-> ""]}
    \cup [err : {FALSE}, taskID : {"", TaskIDOf(platform)}]

\* Lines 960 and 1044: taskResp.Output.TaskID == "" / taskResp.TaskID == "".
HasTaskID_any(id) == TRUE
HasTaskID(id) == id # ""

\* What a status poll can bring back: a transport error, or a body whose status
\* field is one of the two vocabularies' tokens, another word or empty, with or
\* without a result URL under a success token.
PollResponses ==
    {[err |-> TRUE, status |-> "", hasURL |-> FALSE]}
    \cup [err : {FALSE}, status : {"SUCCEEDED", "SUCCEED"}, hasURL : BOOLEAN]
    \cup [err : {FALSE}, status : {"FAILED", "PENDING", ""}, hasURL : {FALSE}]

\* generateImage, lines 867-870: p, ok := cfg.Platforms[platform]; !ok || !p.Enabled.
LookupOK_anyEntry(c, platform) == platform \in DOMAIN c
LookupOK(c, platform) == platform \in DOMAIN c /\ c[platform].Enabled

\* generateImage, lines 872-883: the adapter a platform key selects.
Adapter(platform) ==
    IF platform = "aliyun" THEN "aliyun_submit"
    ELSE IF platform = "modelscope" THEN "modelscope_submit"
    ELSE "sync"

\* handleGenerate, lines 633-636: the response when generateImage returned nil.
GenerateFailedResponse == [status |-> 500, error |-> "generate failed"]

\* handleGenerate, lines 625-628: the response when the request does not bind.
BindFailedResponse == [status |-> 400, error |-> "platform required"]

\* handleGenerate, line 651: the response carrying the result.
SuccessResponse(r) ==
    [status |-> 200, error |-> "", filePath |-> r.FilePath, platform |-> r.Platform]

InitServer ==
    /\ cfg \in LoadedConfigs
    /\ yaml = <<>>
    /\ osEnv = <<>>
    /\ h = IdleFrame
    /\ result = Nil
    /\ resp = NoResponse
    /\ FanUnused
    /\ StoreUnused
    /\ PublishUnused
    /\ SeqUnused

\* handleGenerate, lines 619-631, with generateImage, lines 866-884: bind the
\* request, look the platform up and enter its adapter.
handleGenerate(platform) ==
    /\ h.pc \in {"idle", "done"}
    /\ cfg # <<>>
    /\ IF platform = ""
       THEN /\ h' = [IdleFrame EXCEPT !.pc = "done", !.cause = "bind"]
            /\ resp' = BindFailedResponse
       ELSE /\ h' = IF LookupOK(cfg, platform)
                    THEN [IdleFrame EXCEPT !.pc = Adapter(platform),
                                           !.Platform = platform]
                    ELSE [IdleFrame EXCEPT !.pc = "respond", !.Platform = platform,
                                           !.cause = "lookup"]
            /\ resp' = NoResponse
    /\ result' = Nil
    /\ UNCHANGED <<cfgVars, fanVars, seqVars, storeVars, pubVars>>

\* What the POST of generateSyncImage can bring back: a transport error, a
\* status other than 200, status 200 with an empty or unparseable data list,
\* status 200 with a URL.
SyncReplies == {"transport", "status", "empty", "url"}

\* Lines 909-922: err != nil || resp.StatusCode != 200, then
\* err != nil || len(result.Data) == 0.
HasData_unchecked(reply) == reply \in {"empty", "url"}
HasData(reply) == reply = "url"

\* generateSyncImage, lines 887-928: one POST; a transport error, a status other
\* than 200 or an empty data list returns nil, else the first URL is downloaded
\* into the directory named "siliconflow".
generateSyncImage ==
    /\ h.pc = "sync"
    /\ \E reply \in SyncReplies :
         h' = IF HasData(reply)
              THEN [h EXCEPT !.pc = "download", !.dir = "siliconflow",
                             !.remote = @ \cup {"generate"}, !.posts = @ + 1,
                             !.answer = reply]
              ELSE [h EXCEPT !.pc = "respond", !.cause = "adapter",
                             !.remote = @ \cup {"generate"}, !.posts = @ + 1,
                             !.answer = reply]
    /\ UNCHANGED <<result, resp, cfgVars, fanVars, seqVars, storeVars, pubVars>>

\* generateAliyunImage, lines 931-970, and generateModelScopeImage, lines
\* 1011-1052: create the task; a transport error or a reply without task_id
\* returns nil.
SubmitTask(next) ==
    \E reply \in SubmitReplies(h.Platform) :
       h' = IF ~reply.err /\ HasTaskID(reply.taskID)
            THEN [h EXCEPT !.pc = next, !.i = 0, !.taskID = reply.taskID,
                           !.remote = @ \cup {"submit"}, !.posts = @ + 1]
            ELSE [h EXCEPT !.pc = "respond", !.cause = "submit",
                           !.remote = @ \cup {"submit"}, !.posts = @ + 1]

AliyunSubmit ==
    /\ h.pc = "aliyun_submit"
    /\ SubmitTask("aliyun_poll")
    /\ UNCHANGED <<result, resp, cfgVars, fanVars, seqVars, storeVars, pubVars>>

ModelScopeSubmit ==
    /\ h.pc = "modelscope_submit"
    /\ SubmitTask("modelscope_poll")
    /\ UNCHANGED <<result, resp, cfgVars, fanVars, seqVars, storeVars, pubVars>>

\* The loop condition of both pollers: i < maxRetries.
LoopContinues_offByOne(i, maxRetries) == i <= maxRetries
LoopContinues(i, maxRetries) == i < maxRetries

\* The two branches of the loop body, lines 998-1003 and 1077-1082: what the
\* poller does with a reply it could read.
Classify_ignoreFailed(token, r) ==
    IF r.status = token /\ r.hasURL THEN "SUCCEEDED" ELSE "PENDING"

Classify_eitherToken(token, r) ==
    IF r.status \in {"SUCCEEDED", "SUCCEED"} /\ r.hasURL THEN "SUCCEEDED"
    ELSE IF r.status = "FAILED" THEN "FAILED"
    ELSE "PENDING"

Classify(token, r) ==
    IF r.status = token /\ r.hasURL THEN "SUCCEEDED"
    ELSE IF r.status = "FAILED" THEN "FAILED"
    ELSE "PENDING"

\* The frame after one sleep and one status request for the task: the reply
\* received last, and the count of the replies so far, by what they say.
Counted(f, token, r) ==
    [f EXCEPT !.polls = @ + 1, !.remote = @ \cup {"poll"},
              !.slept = @ + Interval(f.Platform),
              !.polled = @ \cup {f.taskID}, !.reply = r,
              !.okSeen = @ + (IF ~r.err /\ r.status = token /\ r.hasURL THEN 1 ELSE 0),
              !.failSeen = @ + (IF ~r.err /\ r.status = "FAILED" THEN 1 ELSE 0)]

\* Lines 981-983 and 1064-1066: `if err != nil { continue }`, what the loop
\* makes of a status request that got no reply.
AfterTransportError_abort == "FAILED"
AfterTransportError == "PENDING"

\* One iteration of a poll loop, lines 974-1004 and 1056-1084: sleep, GET the
\* task; a transport error is skipped with `continue`; the platform's success
\* token with a URL ends the loop in downloadAndSave, FAILED ends it with nil,
\* anything else goes round again.
PollIteration(token, dir, maxRetries) ==
    /\ LoopContinues(h.i, maxRetries)
    /\ \E r \in PollResponses :
         LET f == Counted(h, token, r)
             c == IF r.err THEN AfterTransportError ELSE Classify(token, r)
         IN  h' = CASE c = "SUCCEEDED" ->
                        [f EXCEPT !.pc = "download", !.dir = dir, !.out = "url"]
                   [] c = "FAILED" ->
                        [f EXCEPT !.pc = "respond", !.cause = "task_failed",
                                  !.out = "failed"]
                   [] OTHER -> [f EXCEPT !.i = @ + 1]

\* Lines 1006-1007 and 1086-1087: the loop ran out of attempts.
PollExhausted(maxRetries) ==
    /\ ~LoopContinues(h.i, maxRetries)
    /\ h' = [h EXCEPT !.pc = "respond", !.cause = "timeout", !.out = "timeout"]

AliyunPoll ==
    /\ h.pc = "aliyun_poll"
    /\ PollIteration("SUCCEEDED", "aliyun", AliyunMaxRetries)
    /\ UNCHANGED <<result, resp, cfgVars, fanVars, seqVars, storeVars, pubVars>>

AliyunTimeout ==
    /\ h.pc = "aliyun_poll"
    /\ PollExhausted(AliyunMaxRetries)
    /\ UNCHANGED <<result, resp, cfgVars, fanVars, seqVars, storeVars, pubVars>>

ModelScopePoll ==
    /\ h.pc = "modelscope_poll"
    /\ PollIteration("SUCCEED", "modelscope", ModelScopeMaxRetries)
    /\ UNCHANGED <<result, resp, cfgVars, fanVars, seqVars, storeVars, pubVars>>

ModelScopeTimeout ==
    /\ h.pc = "modelscope_poll"
    /\ PollExhausted(ModelScopeMaxRetries)
    /\ UNCHANGED <<result, resp, cfgVars, fanVars, seqVars, storeVars, pubVars>>

\* downloadAndSave, lines 1091-1118: nil when the GET fails, else the body is
\* written under the directory and the result describes the file.
downloadAndSave ==
    /\ h.pc = "download"
    /\ \E got \in BOOLEAN :
         IF got
         THEN /\ result' = <<[Platform |-> PlatformName(h.Platform),
                              FilePath |-> <<"outputDir", h.dir>>,
                              Success |-> TRUE]>>
              /\ h' = [h EXCEPT !.pc = "respond", !.gets = @ + 1,
                                !.writes = @ + 1]
         ELSE /\ result' = Nil
              /\ h' = [h EXCEPT !.pc = "respond", !.cause = "download",
                                !.gets = @ + 1]
    /\ UNCHANGED <<resp, cfgVars, fanVars, seqVars, storeVars, pubVars>>

\* handleGenerate, lines 633-651: nil is the 500 response, anything else is
\* recorded and answered with 200.
Respond ==
    /\ h.pc = "respond"
    /\ resp' = IF result = Nil THEN GenerateFailedResponse
               ELSE SuccessResponse(result[1])
    /\ h' = [h EXCEPT !.pc = "done"]
    /\ UNCHANGED <<result, cfgVars, fanVars, seqVars, storeVars, pubVars>>

NextServer ==
    \/ \E platform \in RequestPlatforms : handleGenerate(platform)
    \/ generateSyncImage
    \/ AliyunSubmit
    \/ AliyunPoll
    \/ AliyunTimeout
    \/ ModelScopeSubmit
    \/ ModelScopePoll
    \/ ModelScopeTimeout
    \/ downloadAndSave
    \/ Respond

SpecServer == InitServer /\ [][NextServer]_vars

\* A poller's goroutine keeps running: time.Sleep returns, and the client of
\* both pollers carries a Timeout of 30 seconds (lines 932, 1012), so every
\* status request returns, with a reply or with an error.
PollerStep == AliyunPoll \/ AliyunTimeout \/ ModelScopePoll \/ ModelScopeTimeout

\* A server whose four platforms are all switched on and hold a credential.
PollerConfigs ==
    {c \in LoadedConfigs : \A k \in DOMAIN c : c[k].Enabled /\ c[k].APIKey # ""}

InitPoller == InitServer /\ cfg \in PollerConfigs

SpecPoller == InitPoller /\ [][NextServer]_vars

FairPoller == SpecPoller /\ WF_vars(PollerStep)

----------------------------------------------------------------------------
(* cmd/server, first revision: the sequential first-success loop *)

\* handleGenerate (first revision), lines 198-201: the response when no result
\* was obtained.
AllFailedResponse == [status |-> 500, error |-> "all platforms failed"]

\* generateImage (first revision), lines 333-402: nil when the platform is not
\* configured or switched off ("lookup"), when the POST fails or is not 200
\* ("http"), when the reply holds no data ("parse") or when the GET of the image
\* fails ("download"); a result otherwise.
generateImage_v1(c, platform) ==
    IF platform \in DOMAIN c /\ c[platform].Enabled
    THEN {"http", "parse", "download", "ok"}
    ELSE {"lookup"}

\* The *GenerateResult of a successful generateImage.
ResultOf(platform) ==
    <<[Platform |-> PlatformName(platform), FilePath |-> <<"outputDir", platform>>,
       Success |-> TRUE]>>

\* The range loop, lines 188-195: `break` on the first non-nil result, else on
\* to the next key until none is left.
AfterAttempt_noBreak(ok, rest) == IF rest = {} THEN "respond" ELSE "range"
AfterAttempt(ok, rest) == IF ok \/ rest = {} THEN "respond" ELSE "range"

AttemptKeys(attempts) == [j \in 1..Len(attempts) |-> attempts[j].key]

InitSeq ==
    /\ cfg \in LoadedConfigs
    /\ yaml = <<>>
    /\ osEnv = <<>>
    /\ h = IdleFrame
    /\ result = Nil
    /\ resp = NoResponse
    /\ h1 = IdleFrame1
    /\ prevAttempts = <<>>
    /\ FanUnused
    /\ StoreUnused
    /\ PublishUnused

\* handleGenerate (first revision), lines 172-187: bind, take the enabled
\* platforms, and either call generateImage for the named platform or enter the
\* loop over the enabled ones.
handleGenerate_v1(platform) ==
    /\ h1.pc \in {"idle", "done"}
    /\ prevAttempts' = IF h1.pc = "done" /\ h1.Platform = ""
                       THEN AttemptKeys(h1.attempts)
                       ELSE prevAttempts
    /\ LET platforms == getEnabledPlatforms(cfg)
       IN  h1' = [pc |-> IF platform # "" THEN "single"
                         ELSE IF platforms = {} THEN "respond" ELSE "range",
                  Platform |-> platform,
                  remaining |-> IF platform # "" THEN {} ELSE platforms,
                  attempts |-> <<>>]
    /\ result' = Nil
    /\ resp' = NoResponse
    /\ UNCHANGED <<cfgVars, h, fanVars, storeVars, pubVars>>

\* handleGenerate (first revision), lines 185-186: the named platform.
SingleAttempt ==
    /\ h1.pc = "single"
    /\ \E out \in generateImage_v1(cfg, h1.Platform) :
         /\ result' = IF out = "ok" THEN ResultOf(h1.Platform) ELSE Nil
         /\ h1' = [h1 EXCEPT !.pc = "respond",
                             !.attempts = <<[key |-> h1.Platform, ok |-> out = "ok"]>>]
    /\ UNCHANGED <<cfgVars, h, resp, prevAttempts, fanVars, storeVars, pubVars>>

\* One iteration of `for key, p := range platforms`, lines 188-195.  Go leaves
\* the iteration order of a map unspecified: any key not yet visited.
RangeAttempt(key) ==
    /\ h1.pc = "range"
    /\ key \in h1.remaining
    /\ \E out \in generateImage_v1(cfg, key) :
         LET ok == out = "ok"
             rest == h1.remaining \ {key}
         IN  /\ result' = IF ok THEN ResultOf(key) ELSE result
             /\ h1' = [h1 EXCEPT !.pc = AfterAttempt(ok, rest),
                                 !.remaining = rest,
                                 !.attempts = Append(@, [key |-> key, ok |-> ok])]
    /\ UNCHANGED <<cfgVars, h, resp, prevAttempts, fanVars, storeVars, pubVars>>

\* handleGenerate (first revision), lines 198-217.
Respond_v1 ==
    /\ h1.pc = "respond"
    /\ resp' = IF result = Nil THEN AllFailedResponse
               ELSE [status |-> 200, error |-> "", filePath |-> result[1].FilePath,
                     platform |-> result[1].Platform]
    /\ h1' = [h1 EXCEPT !.pc = "done"]
    /\ UNCHANGED <<cfgVars, h, result, prevAttempts, fanVars, storeVars, pubVars>>

NextSeq ==
    \/ \E platform \in RequestPlatforms : handleGenerate_v1(platform)
    \/ SingleAttempt
    \/ \E key \in PlatformKeys : RangeAttempt(key)
    \/ Respond_v1

SpecSeq == InitSeq /\ [][NextSeq]_vars

----------------------------------------------------------------------------
(* package os *)

\* os.WriteFile(path, data, 0644): the file at path is created or replaced and
\* holds data.
WriteFile_short(fs, path, data) ==
    [p \in DOMAIN fs \cup {path} |->
        IF p = path THEN SubSeq(data, 1, Len(data) - 1) ELSE fs[p]]

WriteFile(fs, path, data) ==
    [p \in DOMAIN fs \cup {path} |-> IF p = path THEN data ELSE fs[p]]

----------------------------------------------------------------------------
(* package generator *)

ProviderKeys == 1..MaxProviders

\* Display names.  A platform's name is free text of the configuration file:
\* every platform is called by a name of its own (k), except that the second
\* may also be given the same name as the first.
DisplayNames(k) == IF k = 2 THEN {1, 2} ELSE {k}

\* The zero GenerateResult a worker starts from (Platform filled in).
NewResult(name) ==
    [Platform |-> name, Success |-> FALSE, FilePath |-> <<>>, ImageURL |-> <<>>,
     Error |-> ""]

\* httpGet(url), lines 321-329: the bytes served at url.
RemoteBody(url) == <<"body", url>>

\* New(cfg, platforms): one PlatformGenerator per entry of the map it is given.
New(platforms) == [k \in DOMAIN platforms |-> [Name |-> platforms[k].Name]]

\* results := make([]GenerateResult, 0, len(g.generators)): empty, capacity n.
MakeResults_presized(n) == [j \in 1..n |-> NewResult(0)]
MakeResults(n) == <<>>

\* Capacity of resultsChan: make(chan GenerateResult, len(g.generators)).
ChanCap_unbuffered(n) == 0
ChanCap(n) == n

InitFanOut ==
    /\ \E n \in 0..MaxProviders :
         \E names \in [1..n -> ProviderKeys] :
            /\ \A k \in 1..n : names[k] \in DisplayNames(k)
            /\ generators = New([k \in 1..n |-> [Name |-> names[k]]])
            /\ wpc = [k \in 1..n |-> "none"]
            /\ wres = [k \in 1..n |-> NewResult(names[k])]
            /\ genCalls = [k \in 1..n |-> 0]
    /\ gpc = "entry"
    /\ spawned = {}
    /\ wg = 0
    /\ resultsChan = <<>>
    /\ chanClosed = FALSE
    /\ results = <<>>
    /\ single = <<>>
    /\ ServerUnused
    /\ StoreUnused
    /\ PublishUnused
    /\ SeqUnused

\* GenerateAll, lines 91-94: no generator registered, return nil.
GenerateAllEmpty ==
    /\ gpc = "entry"
    /\ DOMAIN generators = {}
    /\ gpc' = "returned"
    /\ UNCHANGED <<generators, spawned, wg, wpc, wres, resultsChan, chanClosed,
                   results, genCalls>>
    /\ UNCHANGED <<cfgVars, srvVars, seqVars, storeVars, pubVars, single>>

\* GenerateAll, lines 96-109: output directory, wait group, result slice, channel.
GenerateAllEnter ==
    /\ gpc = "entry"
    /\ DOMAIN generators # {}
    /\ gpc' = "spawn"
    /\ results' = MakeResults(Cardinality(DOMAIN generators))
    /\ UNCHANGED <<generators, spawned, wg, wpc, wres, resultsChan, chanClosed,
                   genCalls>>
    /\ UNCHANGED <<cfgVars, srvVars, seqVars, storeVars, pubVars, single>>

\* One iteration of `for key, gen := range g.generators`: wg.Add(1); go func.
\* Go leaves the iteration order of a map unspecified: any unvisited key.
Spawn(k) ==
    /\ gpc = "spawn"
    /\ k \in DOMAIN generators \ spawned
    /\ wg' = wg + 1
    /\ spawned' = spawned \cup {k}
    /\ wpc' = [wpc EXCEPT ![k] = "generate"]
    /\ gpc' = IF spawned' = DOMAIN generators THEN "wait" ELSE "spawn"
    /\ UNCHANGED <<generators, wres, resultsChan, chanClosed, results, genCalls>>
    /\ UNCHANGED <<cfgVars, srvVars, seqVars, storeVars, pubVars, single>>

\* Worker, lines 116-128: generator.Generate returns a URL or an error.
WorkerGenerate_cancelSiblings(k) ==
    /\ k \in DOMAIN generators
    /\ wpc[k] = "generate"
    /\ genCalls' = [genCalls EXCEPT ![k] = @ + 1]
    /\ \E ok \in BOOLEAN :
         IF ok
         THEN /\ wpc' = [wpc EXCEPT ![k] = "download"]
              /\ wres' = wres
         ELSE /\ wpc' = [j \in DOMAIN wpc |->
                           IF j = k \/ wpc[j] = "generate" THEN "send" ELSE wpc[j]]
              /\ wres' = [j \in DOMAIN wres |->
                           IF j = k \/ wpc[j] = "generate"
                           THEN [wres[j] EXCEPT !.Error = "canceled"]
                           ELSE wres[j]]
    /\ UNCHANGED <<generators, gpc, spawned, wg, resultsChan, chanClosed, results>>
    /\ UNCHANGED <<cfgVars, srvVars, seqVars, storeVars, pubVars, single>>

WorkerGenerate(k) ==
    /\ k \in DOMAIN generators
    /\ wpc[k] = "generate"
    /\ genCalls' = [genCalls EXCEPT ![k] = @ + 1]
    /\ \E ok \in BOOLEAN :
         IF ok
         THEN /\ wpc' = [wpc EXCEPT ![k] = "download"]
              /\ wres' = wres
         ELSE /\ wpc' = [wpc EXCEPT ![k] = "send"]
              /\ wres' = [wres EXCEPT ![k].Success = FALSE, ![k].Error = "generate"]
    /\ UNCHANGED <<generators, gpc, spawned, wg, resultsChan, chanClosed, results>>
    /\ UNCHANGED <<cfgVars, srvVars, seqVars, storeVars, pubVars, single>>

\* Worker, lines 129-143: downloadImage(imageURL, filepath), lines 313-319,
\* fetches the body and writes it; it returns the error of either step.
WorkerDownload(k) ==
    /\ k \in DOMAIN generators
    /\ wpc[k] = "download"
    /\ \E ok \in BOOLEAN :
         IF ok
         THEN /\ files' = WriteFile(files, <<"outputDir", k>>,
                                    RemoteBody(<<"url", k>>))
              /\ wres' = [wres EXCEPT ![k].Success = TRUE,
                                      ![k].FilePath = <<"outputDir", k>>,
                                      ![k].ImageURL = <<"url", k>>]
         ELSE /\ files' = files
              /\ wres' = [wres EXCEPT ![k].Success = FALSE,
                                      ![k].Error = "download"]
    /\ wpc' = [wpc EXCEPT ![k] = "send"]
    /\ UNCHANGED <<generators, gpc, spawned, wg, resultsChan, chanClosed, results,
                   genCalls>>
    /\ UNCHANGED <<cfgVars, srvVars, seqVars, pubVars, single>>
    /\ UNCHANGED <<records, nextID, last>>

\* Worker, line 146: resultsChan <- result; blocks while the buffer is full.
WorkerSend(k) ==
    /\ k \in DOMAIN generators
    /\ wpc[k] = "send"
    /\ Len(resultsChan) < ChanCap(Cardinality(DOMAIN generators))
    /\ ~chanClosed
    /\ resultsChan' = Append(resultsChan, wres[k])
    /\ wpc' = [wpc EXCEPT ![k] = "defer"]
    /\ UNCHANGED <<generators, gpc, spawned, wg, wres, chanClosed, results, genCalls>>
    /\ UNCHANGED <<cfgVars, srvVars, seqVars, storeVars, pubVars, single>>

\* Worker, line 114: the deferred wg.Done().
WorkerDone(k) ==
    /\ k \in DOMAIN generators
    /\ wpc[k] = "defer"
    /\ wg' = wg - 1
    /\ wpc' = [wpc EXCEPT ![k] = "exit"]
    /\ UNCHANGED <<generators, gpc, spawned, wres, resultsChan, chanClosed, results,
                   genCalls>>
    /\ UNCHANGED <<cfgVars, srvVars, seqVars, storeVars, pubVars, single>>

\* GenerateAll, line 150: wg.Wait() returns when the counter is zero.
Wait ==
    /\ gpc = "wait"
    /\ wg = 0
    /\ gpc' = "close"
    /\ UNCHANGED <<generators, spawned, wg, wpc, wres, resultsChan, chanClosed,
                   results, genCalls>>
    /\ UNCHANGED <<cfgVars, srvVars, seqVars, storeVars, pubVars, single>>

\* GenerateAll, line 151: close(resultsChan).
Close ==
    /\ gpc = "close"
    /\ chanClosed' = TRUE
    /\ gpc' = "drain"
    /\ UNCHANGED <<generators, spawned, wg, wpc, wres, resultsChan, results, genCalls>>
    /\ UNCHANGED <<cfgVars, srvVars, seqVars, storeVars, pubVars, single>>

\* GenerateAll, lines 153-155: one iteration of `for result := range resultsChan`.
Drain ==
    /\ gpc = "drain"
    /\ resultsChan # <<>>
    /\ results' = Append(results, Head(resultsChan))
    /\ resultsChan' = Tail(resultsChan)
    /\ UNCHANGED <<generators, gpc, spawned, wg, wpc, wres, chanClosed, genCalls>>
    /\ UNCHANGED <<cfgVars, srvVars, seqVars, storeVars, pubVars, single>>

\* GenerateAll, lines 153-168: the range loop ends on the closed, empty channel.
Return ==
    /\ gpc = "drain"
    /\ resultsChan = <<>>
    /\ chanClosed
    /\ gpc' = "returned"
    /\ UNCHANGED <<generators, spawned, wg, wpc, wres, resultsChan, chanClosed,
                   results, genCalls>>
    /\ UNCHANGED <<cfgVars, srvVars, seqVars, storeVars, pubVars, single>>

\* generateViaHTTP, lines 286-299: the first URL of the data list the remote
\* answers with (<<>>: an empty list, or an empty URL).
RemoteURLs(k) == {<<>>, <<"url", k>>}

\* generateViaHTTP, line 296: an answer without a URL is an error.
HasImage_any(url) == TRUE
HasImage(url) == url # <<>>

\* GenerateSingle, lines 172-218, as one step: the platform is looked up, its
\* Generate is called, the image is downloaded, the outcome is returned.
GenerateSingle(platform) ==
    /\ gpc = "entry"
    /\ gpc' = "single"
    /\ IF platform \notin DOMAIN generators
       THEN /\ single' = <<[NewResult(platform) EXCEPT !.Error = "not enabled"]>>
            /\ UNCHANGED <<genCalls, files>>
       ELSE LET r == NewResult(generators[platform].Name)
                path == <<"outputDir", "single", platform>>
            IN  /\ genCalls' = [genCalls EXCEPT ![platform] = @ + 1]
                /\ \/ /\ single' = <<[r EXCEPT !.Error = "generate"]>>
                      /\ files' = files
                   \/ \E url \in RemoteURLs(platform) :
                        IF ~HasImage(url)
                        THEN /\ single' = <<[r EXCEPT !.Error = "generate"]>>
                             /\ files' = files
                        ELSE \/ /\ single' = <<[r EXCEPT !.Error = "download"]>>
                                /\ files' = files
                             \/ /\ files' = WriteFile(files, path, RemoteBody(url))
                                /\ single' = <<[r EXCEPT !.Success = TRUE,
                                                         !.FilePath = path,
                                                         !.ImageURL = url]>>
    /\ UNCHANGED <<generators, spawned, wg, wpc, wres, resultsChan, chanClosed,
                   results>>
    /\ UNCHANGED <<cfgVars, srvVars, seqVars, pubVars>>
    /\ UNCHANGED <<records, nextID, last>>

Worker(k) == WorkerGenerate(k) \/ WorkerDownload(k) \/ WorkerSend(k) \/ WorkerDone(k)

GenerateAll ==
    \/ GenerateAllEmpty
    \/ GenerateAllEnter
    \/ \E k \in ProviderKeys : Spawn(k)
    \/ Wait
    \/ Close
    \/ Drain
    \/ Return

NextFanOut ==
    \/ GenerateAllEmpty
    \/ GenerateAllEnter
    \/ \E k \in ProviderKeys : Spawn(k)
    \/ \E k \in ProviderKeys : WorkerGenerate(k)
    \/ \E k \in ProviderKeys : WorkerDownload(k)
    \/ \E k \in ProviderKeys : WorkerSend(k)
    \/ \E k \in ProviderKeys : WorkerDone(k)
    \/ Wait
    \/ Close
    \/ Drain
    \/ Return

SpecFanOut == InitFanOut /\ [][NextFanOut]_vars

\* The Go scheduler runs every runnable goroutine: the caller's goroutine and
\* each worker keep taking their next step while it stays enabled.  Every HTTP
\* client of the package carries a Timeout, so Generate and downloadImage return.
FairFanOut ==
    /\ SpecFanOut
    /\ WF_vars(GenerateAll)
    /\ \A k \in ProviderKeys : WF_vars(Worker(k))

----------------------------------------------------------------------------
(* cmd/server, current revision: artifact files and the images table *)

\* Generate requests handled in one run.
MaxRequests == 2

\* The configurations of this part: every platform's key comes from the file;
\* aliyun is switched on or off, the others are on.
StoreConfigs ==
    {c \in LoadedConfigs :
        \A k \in DOMAIN c : c[k].APIKey = "yaml-key" /\ (k # "aliyun" => c[k].Enabled)}

\* The value of time.Now() during the run: requests arrive within one second,
\* on a date with a month below ten.
Clock == {[date |-> <<2026, 2, 20>>, tod |-> <<21, 56, 54>>]}

\* Decimal digits of a number on two and on four places.
Digits2(n) == <<(n \div 10) % 10, n % 10>>
Digits4(n) == <<(n \div 1000) % 10, (n \div 100) % 10>> \o Digits2(n)

\* now.Format("2006-01-02") and now.Format("150405"), as sequences of digits
\* and separators.
FormatDate(now) ==
    Digits4(now.date[1]) \o <<"-">> \o Digits2(now.date[2]) \o <<"-">>
        \o Digits2(now.date[3])
FormatClock(now) == Digits2(now.tod[1]) \o Digits2(now.tod[2]) \o Digits2(now.tod[3])

\* cfg.ImageGen.OutputDir.
OutputDir == "outputDir"

\* downloadAndSave, lines 1092-1098: the path components filepath.Join puts
\* together: output directory, date, platform directory, file name.
Filename(now) == FormatClock(now) \o <<".png">>
SavePath(now, platform) == <<OutputDir, FormatDate(now), platform, Filename(now)>>

\* The `platform` argument each adapter hands to downloadAndSave: lines 927, 999
\* and 1078.
SaveDir(platform) ==
    IF platform = "aliyun" THEN "aliyun"
    ELSE IF platform = "modelscope" THEN "modelscope"
    ELSE "siliconflow"

\* PlatformConfig.Model: the model the file configures for the platform.
DefaultModel(k) == <<"model", k>>

\* The "model" of the remote generation request: lines 898, 936 and 1016.
RequestModel(platform, model) == DefaultModel(platform)

\* downloadAndSave, lines 1111-1117: the result it returns.
SavedResult(platform, now) ==
    [Platform |-> PlatformName(platform), Model |-> DefaultModel(platform),
     Filename |-> Filename(now), FilePath |-> SavePath(now, SaveDir(platform)),
     Success |-> TRUE]

\* What the GET of the image URL brings back: an error from http.Get, or a body
\* of which io.ReadAll reads a prefix before it ends or fails.
Payloads == {<<>>, <<7, 8>>}
Fetches ==
    {[err |-> TRUE, body |-> <<>>, read |-> 0]}
    \cup UNION {{[err |-> FALSE, body |-> b, read |-> r] : r \in 0..Len(b)} :
                b \in Payloads}

\* How the frame names a fetch.
FetchKind(f) ==
    IF f.err THEN "transport"
    ELSE IF f.read < Len(f.body) THEN "short"
    ELSE IF f.body = <<>> THEN "empty"
    ELSE "full"

\* handleGenerate, lines 638-648: the record of a result, by its path and its
\* status.
NewRecord(r) == [Path |-> r.FilePath, Status |-> "pending"]

\* db.Create(&record), line 649: the row is inserted under the next id.
Create_none(table, id, record) == table
Create(table, id, record) ==
    [j \in DOMAIN table \cup {id} |-> IF j = id THEN record ELSE table[j]]

\* db.Model(&ImageRecord{}).Where("id = ?", id).Updates(...), lines 674-675:
\* the row with that id, if there is one, takes the status.
Updates(table, id, status) ==
    IF id \in DOMAIN table THEN [table EXCEPT ![id].Status = status] ELSE table

\* db.Delete(&ImageRecord{}, id), line 686.
Delete(table, id) == [j \in DOMAIN table \ {id} |-> table[j]]

InitStore ==
    /\ cfg \in StoreConfigs
    /\ yaml = <<>>
    /\ osEnv = <<>>
    /\ h = IdleFrame
    /\ result = Nil
    /\ resp = NoResponse
    /\ files = <<>>
    /\ records = <<>>
    /\ nextID = 1
    /\ last = NoRequest
    /\ FanUnused
    /\ SeqUnused
    /\ PublishUnused

\* handleGenerate, lines 633-651, after generateImage has returned r: nil is
\* the 500 response and records nothing; a result is recorded and answered 200.
Answer(req, r) ==
    /\ records' = IF r = Nil THEN records
                  ELSE Create(records, nextID, NewRecord(r[1]))
    /\ nextID' = IF r = Nil THEN nextID ELSE nextID + 1
    /\ last' = [req EXCEPT !.op = "generate", !.n = last.n + 1, !.result = r,
                           !.code = IF r = Nil THEN 500 ELSE 200]

\* POST /api/generate as one step: handleGenerate, lines 619-652, with
\* generateImage, the adapter it selects and downloadAndSave.  The request must
\* name a platform (400 otherwise); a platform that is not configured or is
\* switched off, an adapter that returns nil and a failed GET of the image give
\* nil; otherwise the body read is written to the path and a result returned.
postGenerate(platform, model) ==
    /\ cfg # <<>>
    /\ last.n < MaxRequests
    /\ LET req == [NoRequest EXCEPT !.platform = platform, !.model = model]
           called == [req EXCEPT !.sent = <<RequestModel(platform, model)>>]
       IN  \/ /\ platform = ""
              /\ last' = [req EXCEPT !.op = "generate", !.n = last.n + 1,
                                     !.code = 400]
              /\ UNCHANGED <<files, records, nextID>>
           \/ /\ platform # ""
              /\ ~LookupOK(cfg, platform)
              /\ Answer(req, Nil)
              /\ UNCHANGED files
           \/ /\ platform # ""
              /\ LookupOK(cfg, platform)
              /\ Answer(called, Nil)
              /\ UNCHANGED files
           \/ /\ platform # ""
              /\ LookupOK(cfg, platform)
              /\ \E now \in Clock :
                   LET path == SavePath(now, SaveDir(platform))
                       at == [called EXCEPT !.path = path]
                   IN  \/ /\ Answer([at EXCEPT !.fetch = "transport"], Nil)
                          /\ UNCHANGED files
                       \/ \E f \in Fetches :
                            LET data == SubSeq(f.body, 1, f.read)
                            IN  /\ ~f.err
                                /\ files' = WriteFile(files, path, data)
                                /\ Answer([at EXCEPT !.fetch = FetchKind(f),
                                                     !.data = data, !.wrote = "ok"],
                                          <<SavedResult(platform, now)>>)
    /\ UNCHANGED <<cfgVars, srvVars, fanVars, seqVars, pubVars>>

\* POST /api/moderate: moderateImage, lines 664-677.  id and status are
\* required (400 otherwise); the status of the request is stored as it comes.
moderateImage(id, status) ==
    /\ cfg # <<>>
    /\ LET bound == id # 0 /\ status # ""
       IN  /\ records' = IF bound THEN Updates(records, id, status) ELSE records
           /\ last' = [NoRequest EXCEPT
                          !.op = "moderate", !.n = last.n,
                          !.code = IF bound THEN 200 ELSE 400]
    /\ UNCHANGED <<files, nextID, cfgVars, srvVars, fanVars, seqVars, pubVars>>

\* DELETE /api/images/:id: deleteImage, lines 685-688.
deleteImage(id) ==
    /\ cfg # <<>>
    /\ records' = Delete(records, id)
    /\ last' = [NoRequest EXCEPT !.op = "delete", !.n = last.n, !.code = 200]
    /\ UNCHANGED <<files, nextID, cfgVars, srvVars, fanVars, seqVars, pubVars>>

\* What the requests of this part can carry.
RequestModels == {"", "custom-model"}
RequestIDs == 0..MaxRequests
RequestStatuses == {"", "approved", "rejected", "spam"}
StorePlatforms == {"", "unknown", "siliconflow", "openai", "aliyun"}

NextStore ==
    \/ \E platform \in StorePlatforms, model \in RequestModels :
          postGenerate(platform, model)
    \/ \E id \in RequestIDs, status \in RequestStatuses : moderateImage(id, status)
    \/ \E id \in RequestIDs : deleteImage(id)

SpecStore == InitStore /\ [][NextStore]_vars

\* Every entry point that returns a generation outcome: a run of the generator
\* package (GenerateAll or GenerateSingle) or a run of the server.
InitOutcomes == InitFanOut \/ InitStore

NextOutcomes ==
    \/ NextFanOut
    \/ \E k \in ProviderKeys : GenerateSingle(k)
    \/ NextStore

SpecOutcomes == InitOutcomes /\ [][NextOutcomes]_vars

----------------------------------------------------------------------------
(* package publisher: the registry of platforms *)

\* Register calls in one run.
MaxRegisters == 3

\* The platforms handed to Register: two Xiaohongshu values with different
\* settings, a Douyin, a Bilibili, and a CustomPlatform of type "twitter" whose
\* APIURL is empty.
Adapters ==
    {[impl |-> "Xiaohongshu", Type |-> "xiaohongshu", conf |-> 1],
     [impl |-> "Xiaohongshu", Type |-> "xiaohongshu", conf |-> 2],
     [impl |-> "Douyin", Type |-> "douyin", conf |-> 1],
     [impl |-> "Bilibili", Type |-> "bilibili", conf |-> 1],
     [impl |-> "CustomPlatform", Type |-> "twitter", conf |-> 1]}

\* Manager.Register, line 41: m.platforms[p.Type()] = p.
Registered_firstWins(m, p) ==
    IF p.Type \in DOMAIN m THEN m
    ELSE [k \in DOMAIN m \cup {p.Type} |-> IF k = p.Type THEN p ELSE m[k]]

Registered(m, p) ==
    [k \in DOMAIN m \cup {p.Type} |-> IF k = p.Type THEN p ELSE m[k]]

\* publisher.New, lines 33-37: a manager with no platform.
InitRegistry ==
    /\ mgr = <<>>
    /\ regLog = <<>>
    /\ pub = IdlePublish
    /\ cfg = <<>>
    /\ yaml = <<>>
    /\ osEnv = <<>>
    /\ h = IdleFrame
    /\ result = Nil
    /\ resp = NoResponse
    /\ FanUnused
    /\ SeqUnused
    /\ StoreUnused

\* Manager.Register, lines 40-43.
Register(p) ==
    /\ Len(regLog) < MaxRegisters
    /\ pub.pc = "idle"
    /\ mgr' = Registered(mgr, p)
    /\ regLog' = Append(regLog, p)
    /\ UNCHANGED <<pub, cfgVars, srvVars, fanVars, seqVars, storeVars>>

NextRegistry == \E p \in Adapters : Register(p)

SpecRegistry == InitRegistry /\ [][NextRegistry]_vars

\* The registries a started server can hold: what a run of Register calls
\* leaves.
RECURSIVE RegisterAll(_)
RegisterAll(log) ==
    IF log = <<>> THEN <<>>
    ELSE Registered(RegisterAll(SubSeq(log, 1, Len(log) - 1)), log[Len(log)])

Registries ==
    {RegisterAll(log) : log \in UNION {[1..n -> Adapters] : n \in 0..MaxRegisters}}

----------------------------------------------------------------------------
(* cmd/server, current revision: handlePublish *)

\* Platform keys listed in one publish request.
MaxRequested == 2

\* Platform.Publish of the registered platform p for the image at path:
\* Xiaohongshu (platforms.go, lines 46-68) fails when the image cannot be
\* opened; Douyin and Bilibili (lines 115-119, 134-138) answer with a fixed
\* text; a CustomPlatform without APIURL (lines 160-166) fails.
AdapterPublish(p, path, fs) ==
    IF p.impl = "Xiaohongshu"
    THEN IF path \in DOMAIN fs THEN [err |-> "", url |-> "published"]
         ELSE [err |-> "open image", url |-> ""]
    ELSE IF p.impl = "CustomPlatform" THEN [err |-> "no API URL", url |-> ""]
    ELSE [err |-> "", url |-> "in development"]

\* Manager.Publish, lines 60-66: an error for a type that is not registered,
\* else what the platform's Publish returns.
Publish(m, platformType, path, fs) ==
    IF platformType \notin DOMAIN m THEN [err |-> "unsupported platform", url |-> ""]
    ELSE AdapterPublish(m[platformType], path, fs)

\* handlePublish, lines 763-767: the entry written for a platform.
Entry(out) == IF out.err # "" THEN <<"failed", out.err>> ELSE <<"url", out.url>>

\* handlePublish, lines 753-758: the platforms of the request, or those of
\* Manager.List, in the order its range over the map produced, when the request
\* names none.
Expand_never(requested, listed) == requested
Expand(requested, listed) == IF requested = <<>> THEN listed ELSE requested

\* Manager.List, lines 51-57: the registered platform types in any order.
Lists(m) ==
    {l \in [1..Cardinality(DOMAIN m) -> DOMAIN m] :
        \A a, b \in DOMAIN l : a # b => l[a] # l[b]}

\* The loop of handlePublish, lines 761-768: on to the next platform whatever
\* the last one returned.
AfterPublish_stopOnError(failed, i, n) == IF failed \/ i >= n THEN "respond" ELSE "loop"
AfterPublish(failed, i, n) == IF i >= n THEN "respond" ELSE "loop"

\* What a publish request can carry.
PublishKeys == {"xiaohongshu", "douyin", "twitter"}
PublishRequests == UNION {[1..n -> PublishKeys] : n \in 0..MaxRequested}
PublishIDs == {0, 1, 2}

\* The image of this part and the tables and file systems it is in.
ImagePath == SavePath(CHOOSE now \in Clock : TRUE, "siliconflow")
PublishTables ==
    {<<>>} \cup {[id \in {1} |-> [Path |-> ImagePath, Status |-> s]] :
                    s \in {"pending", "approved", "rejected"}}
PublishFiles == {<<>>, [p \in {ImagePath} |-> <<7, 8>>]}

InitPublish ==
    /\ mgr \in Registries
    /\ regLog = <<>>
    /\ pub = IdlePublish
    /\ records \in PublishTables
    /\ files \in PublishFiles
    /\ nextID = 2
    /\ last = NoRequest
    /\ cfg = <<>>
    /\ yaml = <<>>
    /\ osEnv = <<>>
    /\ h = IdleFrame
    /\ result = Nil
    /\ resp = NoResponse
    /\ FanUnused
    /\ SeqUnused

\* handlePublish, line 744: record.Status != "approved" refuses the request.
Publishable_notRejected(record) == record.Status # "rejected"
Publishable(record) == record.Status = "approved"

\* handlePublish, lines 725-758: bind the request (image_id is required), read
\* the record, refuse an image that is missing or not approved, and settle the
\* platforms to publish to.
handlePublish(imageID, requested) ==
    /\ pub.pc \in {"idle", "done"}
    /\ LET req == [IdlePublish EXCEPT !.imageID = imageID, !.requested = requested]
       IN  \/ /\ imageID = 0
              /\ pub' = [req EXCEPT !.pc = "done", !.code = 400]
           \/ /\ imageID # 0
              /\ imageID \notin DOMAIN records
              /\ pub' = [req EXCEPT !.pc = "done", !.code = 404]
           \/ /\ imageID \in DOMAIN records
              /\ ~Publishable(records[imageID])
              /\ pub' = [req EXCEPT !.record = <<records[imageID]>>,
                                    !.pc = "done", !.code = 400]
           \/ /\ imageID \in DOMAIN records
              /\ Publishable(records[imageID])
              /\ \E listed \in Lists(mgr) :
                   LET use == Expand(requested, listed)
                   IN  pub' = [req EXCEPT !.record = <<records[imageID]>>,
                                          !.platformsToUse = use,
                                          !.pc = AfterPublish(FALSE, 0, Len(use))]
    /\ UNCHANGED <<mgr, regLog, cfgVars, srvVars, fanVars, seqVars, storeVars>>

\* One round of the loop, lines 761-768: Manager.Publish for the next platform
\* and its entry in results.
PublishNext ==
    /\ pub.pc = "loop"
    /\ LET plat == pub.platformsToUse[pub.i + 1]
           out  == Publish(mgr, plat, pub.record[1].Path, files)
       IN  pub' = [pub EXCEPT
                      !.i = @ + 1,
                      !.calls = Append(@, plat),
                      !.results = [k \in DOMAIN @ \cup {plat} |->
                                      IF k = plat THEN Entry(out) ELSE @[k]],
                      !.pc = AfterPublish(out.err # "", pub.i + 1,
                                          Len(pub.platformsToUse))]
    /\ UNCHANGED <<mgr, regLog, cfgVars, srvVars, fanVars, seqVars, storeVars>>

\* handlePublish, line 770: the results are the response.
PublishRespond ==
    /\ pub.pc = "respond"
    /\ pub' = [pub EXCEPT !.pc = "done", !.code = 200]
    /\ UNCHANGED <<mgr, regLog, cfgVars, srvVars, fanVars, seqVars, storeVars>>

NextPublish ==
    \/ \E imageID \in PublishIDs, requested \in PublishRequests :
          handlePublish(imageID, requested)
    \/ PublishNext
    \/ PublishRespond

SpecPublish == InitPublish /\ [][NextPublish]_vars

\* The server with its images table and its publisher: generate, moderate and
\* delete requests are handled while publish requests come in and are in
\* progress.  Xiaohongshu and Douyin are registered.
GateRegistry ==
    RegisterAll(<<[impl |-> "Xiaohongshu", Type |-> "xiaohongshu", conf |-> 1],
                  [impl |-> "Douyin", Type |-> "douyin", conf |-> 1]>>)

GateStatuses == {"approved", "rejected"}
GateRequests == {<<>>, <<"douyin">>}

InitGate ==
    /\ cfg \in StoreConfigs
    /\ yaml = <<>>
    /\ osEnv = <<>>
    /\ h = IdleFrame
    /\ result = Nil
    /\ resp = NoResponse
    /\ files = <<>>
    /\ records = <<>>
    /\ nextID = 1
    /\ last = NoRequest
    /\ mgr = GateRegistry
    /\ regLog = <<>>
    /\ pub = IdlePublish
    /\ FanUnused
    /\ SeqUnused

NextGate ==
    \/ postGenerate("siliconflow", "")
    \/ \E id \in RequestIDs, status \in GateStatuses : moderateImage(id, status)
    \/ \E id \in RequestIDs : deleteImage(id)
    \/ \E imageID \in RequestIDs, requested \in GateRequests :
          handlePublish(imageID, requested)
    \/ PublishNext
    \/ PublishRespond

SpecGate == InitGate /\ [][NextGate]_vars

----------------------------------------------------------------------------
(* package publisher: Manager.PublishAll *)

\* Platform.Name(): a fixed text for each built-in platform (platforms.go,
\* lines 36-38, 112, 131), the name given to NewCustomPlatform for a
\* CustomPlatform (line 157).
NameOf(p) == IF p.impl = "CustomPlatform" THEN p.NameVal ELSE p.impl

\* The platforms handed to Register before PublishAll: a Xiaohongshu, a Douyin
\* and CustomPlatforms of type "twitter" and "weibo", without APIURL, that were
\* given a name of their own or the same name.
NamedAdapters ==
    {[impl |-> "Xiaohongshu", Type |-> "xiaohongshu", conf |-> 1],
     [impl |-> "Douyin", Type |-> "douyin", conf |-> 1],
     [impl |-> "CustomPlatform", Type |-> "twitter", conf |-> 1, NameVal |-> "twitter"],
     [impl |-> "CustomPlatform", Type |-> "weibo", conf |-> 1, NameVal |-> "weibo"],
     [impl |-> "CustomPlatform", Type |-> "weibo", conf |-> 1, NameVal |-> "twitter"]}

NamedRegistries ==
    {RegisterAll(log) :
        log \in UNION {[1..n -> NamedAdapters] : n \in 0..MaxRegisters}}

InitPublishAll ==
    /\ mgr \in NamedRegistries
    /\ regLog = <<>>
    /\ pub = IdlePublish
    /\ records = <<>>
    /\ files \in PublishFiles
    /\ nextID = 1
    /\ last = NoRequest
    /\ cfg = <<>>
    /\ yaml = <<>>
    /\ osEnv = <<>>
    /\ h = IdleFrame
    /\ result = Nil
    /\ resp = NoResponse
    /\ FanUnused
    /\ SeqUnused

\* PublishAll, line 70: results := make(map[string]string).
PublishAllEnter ==
    /\ pub.pc = "idle"
    /\ pub' = [IdlePublish EXCEPT !.pc = "range"]
    /\ UNCHANGED <<mgr, regLog, cfgVars, srvVars, fanVars, seqVars, storeVars>>

\* PublishAll, lines 71-78: one iteration of `for _, p := range m.platforms`,
\* for a platform the range has not produced yet, in any order: p.Publish, and
\* its outcome stored under p.Name().
PublishAllNext(t) ==
    /\ pub.pc = "range"
    /\ t \in DOMAIN mgr
    /\ \A j \in 1..Len(pub.calls) : pub.calls[j] # t
    /\ LET out == AdapterPublish(mgr[t], ImagePath, files)
           name == NameOf(mgr[t])
       IN  pub' = [pub EXCEPT
                      !.i = @ + 1,
                      !.calls = Append(@, t),
                      !.results = [k \in DOMAIN @ \cup {name} |->
                                      IF k = name THEN Entry(out) ELSE @[k]]]
    /\ UNCHANGED <<mgr, regLog, cfgVars, srvVars, fanVars, seqVars, storeVars>>

\* PublishAll, line 79: the range is over, results is returned.
PublishAllReturn ==
    /\ pub.pc = "range"
    /\ \A t \in DOMAIN mgr : \E j \in 1..Len(pub.calls) : pub.calls[j] = t
    /\ pub' = [pub EXCEPT !.pc = "returned"]
    /\ UNCHANGED <<mgr, regLog, cfgVars, srvVars, fanVars, seqVars, storeVars>>

NextPublishAll ==
    \/ PublishAllEnter
    \/ \E t \in {"xiaohongshu", "douyin", "twitter", "weibo"} : PublishAllNext(t)
    \/ PublishAllReturn

SpecPublishAll == InitPublishAll /\ [][NextPublishAll]_vars

----------------------------------------------------------------------------
(* Claims about GenerateAll *)

NumGenerators == Cardinality(DOMAIN generators)
Returned == gpc = "returned" /\ NumGenerators >= 1
OutcomesNamed(x) == {j \in 1..Len(results) : results[j].Platform = x}
ProvidersNamed(x) == {k \in DOMAIN generators : generators[k].Name = x}

\* C1, as claimed: GenerateAll over N >= 1 registered providers returns exactly
\* N outcomes and no two of them carry the same provider identifier (the
\* Platform field is the only identifier an outcome carries).
C1_DistinctProviderIdentifiers ==
    Returned =>
        /\ Len(results) = NumGenerators
        /\ \A a, b \in 1..Len(results) :
              a # b => results[a].Platform # results[b].Platform

\* C1, amended: GenerateAll over N >= 1 registered providers returns exactly N
\* outcomes, one per provider, each carrying its provider's display name: every
\* name is carried by as many outcomes as providers bear it, so the outcomes'
\* identifiers are pairwise distinct exactly when the display names are.
C1_OneOutcomePerProvider ==
    Returned =>
        /\ Len(results) = NumGenerators
        /\ \A k \in DOMAIN generators :
              Cardinality(OutcomesNamed(generators[k].Name))
                  = Cardinality(ProvidersNamed(generators[k].Name))

\* A call over at least two providers returned with a failed and a successful
\* outcome among its results.
C1_Witness ==
    /\ Returned
    /\ NumGenerators >= 2
    /\ \E a, b \in 1..Len(results) : results[a].Success /\ ~results[b].Success

\* C2: every registered provider's Generate is invoked exactly once per
\* GenerateAll call, under every interleaving and whatever happens to the other
\* workers: never twice, once as soon as the worker is past its call, and once
\* for every provider when GenerateAll returns.
C2_EveryProviderInvokedOnce ==
    /\ \A k \in DOMAIN generators :
          /\ genCalls[k] <= 1
          /\ wpc[k] \in {"download", "send", "defer", "exit"} => genCalls[k] = 1
    /\ gpc = "returned" => \A k \in DOMAIN generators : genCalls[k] = 1

\* A call returned in which one worker's Generate failed, another's download
\* failed and a third succeeded.
C2_Witness ==
    /\ gpc = "returned"
    /\ \E a, b, c \in DOMAIN generators :
          /\ wres[a].Error = "generate"
          /\ wres[b].Error = "download"
          /\ wres[c].Success
          /\ genCalls[a] = 1 /\ genCalls[b] = 1 /\ genCalls[c] = 1

AllDelivered == \A k \in DOMAIN generators : wpc[k] = "exit"
AllCallsReturned ==
    /\ spawned = DOMAIN generators
    /\ \A k \in DOMAIN generators : wpc[k] \in {"send", "defer", "exit"}

\* C3: GenerateAll gets past wg.Wait only when every spawned worker has handed
\* over its outcome, it returns all of them, and once every provider call has
\* returned it does return: no worker stays blocked on the channel and the
\* collector does not wait forever.
C3_JoinsAndReturns ==
    /\ [](gpc \in {"close", "drain", "returned"} => AllDelivered)
    /\ [](gpc = "returned" => Len(results) = NumGenerators /\ resultsChan = <<>>)
    /\ (AllCallsReturned ~> gpc = "returned")

\* GenerateAll returned every worker's outcome after all of them had exited.
C3_Witness ==
    /\ gpc = "returned"
    /\ NumGenerators >= 2
    /\ AllDelivered
    /\ chanClosed
    /\ Len(results) = NumGenerators

----------------------------------------------------------------------------
(* Claims about single-target generation and the configuration *)

\* The request names a platform that generateImage must turn away: no entry
\* under that key, or an entry whose Enabled flag is false.
MissingOrSwitchedOff ==
    /\ h.pc # "idle"
    /\ h.Platform # ""
    /\ (h.Platform \notin DOMAIN cfg \/ ~cfg[h.Platform].Enabled)

\* The request ended in a remote or adapter failure.
AdapterFailed ==
    h.pc = "done" /\ h.cause \in {"adapter", "submit", "task_failed", "timeout", "download"}

C5_NoDisabledInvocation ==
    h.remote # {} =>
        /\ h.Platform \in DOMAIN cfg
        /\ cfg[h.Platform].Enabled
        /\ cfg[h.Platform].APIKey # ""

\* C6, as claimed: once the configuration is loaded, every descriptor's enabled
\* flag is true if and only if its API key is non-empty.
C6_EnabledIffCredential ==
    cfg # <<>> => \A k \in DOMAIN cfg : cfg[k].Enabled <=> cfg[k].APIKey # ""

\* C6, amended: once the configuration is loaded, a descriptor whose
\* environment variable is non-empty has its enabled flag true and that value
\* as its API key; a descriptor whose environment variable is empty keeps the
\* configured flag and the configured key as they are (so the flag can be true
\* with an empty key, and false with a non-empty one).
C6_EnvSwitchesOnElseAsConfigured ==
    (cfg # <<>> /\ yaml # <<>>) =>
        \A k \in DOMAIN cfg :
           /\ osEnv[k] # "" => cfg[k].Enabled /\ cfg[k].APIKey = osEnv[k]
           /\ osEnv[k] = "" => cfg[k] = yaml[k]

\* A loaded configuration with a platform switched on by the file without any
\* key, one switched off by the file with a key, and one switched on by its
\* environment variable although the file switches it off.
C6_Witness ==
    /\ cfg # <<>>
    /\ yaml # <<>>
    /\ \E a, b, c \in DOMAIN cfg :
          /\ cfg[a].Enabled /\ cfg[a].APIKey = ""
          /\ ~cfg[b].Enabled /\ cfg[b].APIKey # ""
          /\ osEnv[c] # "" /\ ~yaml[c].Enabled /\ cfg[c].Enabled

----------------------------------------------------------------------------
(* Claims about the sequential first-success mode *)

Sequential == h1.pc \in {"range", "respond", "done"} /\ h1.Platform = ""
NumAttempts == Len(h1.attempts)
AllEarlierFailed(n) == \A m \in 1..(n - 1) : ~h1.attempts[m].ok
NoKeyTwice ==
    \A a, b \in 1..NumAttempts : a # b => h1.attempts[a].key # h1.attempts[b].key
IsPrefix(s, t) == Len(s) <= Len(t) /\ \A j \in 1..Len(s) : s[j] = t[j]

\* C7: in the sequential mode only enabled providers are attempted, each at
\* most once and one at a time; once an attempt succeeds it is the last one and
\* its outcome is the one returned; and the all-failed response is given if and
\* only if every enabled provider was attempted and each attempt failed.
C7_FirstSuccessStops ==
    Sequential =>
        /\ NoKeyTwice
        /\ \A j \in 1..NumAttempts : h1.attempts[j].key \in getEnabledPlatforms(cfg)
        /\ AllEarlierFailed(NumAttempts)
        /\ result # Nil <=> (NumAttempts > 0 /\ h1.attempts[NumAttempts].ok)
        /\ result # Nil =>
              result[1].Platform = PlatformName(h1.attempts[NumAttempts].key)
        /\ h1.pc = "done" =>
              /\ resp.status = 200 <=> result # Nil
              /\ resp.status = 200 => resp.platform = result[1].Platform
              /\ resp = AllFailedResponse <=>
                    /\ {h1.attempts[j].key : j \in 1..NumAttempts}
                          = getEnabledPlatforms(cfg)
                    /\ \A j \in 1..NumAttempts : ~h1.attempts[j].ok

\* A sequential run over at least three enabled providers ended with the second
\* attempt succeeding after the first had failed.
C7_Witness ==
    /\ Sequential
    /\ h1.pc = "done"
    /\ Cardinality(getEnabledPlatforms(cfg)) >= 3
    /\ NumAttempts = 2
    /\ ~h1.attempts[1].ok
    /\ h1.attempts[2].ok
    /\ resp.status = 200

\* C8, as claimed: for a fixed registry every sequential run attempts the
\* providers in the same fixed order, so the order of one run and the order of
\* the run before it agree as far as both go.
C8_SameOrderEveryRun ==
    Sequential =>
        \/ IsPrefix(AttemptKeys(h1.attempts), prevAttempts)
        \/ IsPrefix(prevAttempts, AttemptKeys(h1.attempts))

\* C8, amended: in the sequential mode the providers are attempted one at a
\* time in the iteration order of a Go map, which is unspecified and can differ
\* between two runs over the same registry; within a run a provider is
\* attempted only when it is enabled, has not been attempted before, and every
\* provider attempted before it in that run has failed.
C8_AttemptedAfterEarlierFailed ==
    [][(h1.pc = "range" /\ Len(h1'.attempts) # NumAttempts) =>
          /\ Len(h1'.attempts) = NumAttempts + 1
          /\ IsPrefix(h1.attempts, h1'.attempts)
          /\ \A m \in 1..NumAttempts :
                /\ ~h1.attempts[m].ok
                /\ h1.attempts[m].key # h1'.attempts[NumAttempts + 1].key
          /\ h1'.attempts[NumAttempts + 1].key \in getEnabledPlatforms(cfg)
          /\ result = Nil]_vars

\* Two sequential runs over the same registry began with different providers,
\* and the second went through three attempts.
C8_Witness ==
    /\ Sequential
    /\ h1.pc = "done"
    /\ NumAttempts = 3
    /\ ~h1.attempts[1].ok /\ ~h1.attempts[2].ok
    /\ Len(prevAttempts) >= 1
    /\ prevAttempts[1] # h1.attempts[1].key

----------------------------------------------------------------------------
(* Claims about the task pollers *)

MaxRetriesOf(platform) ==
    IF platform = "aliyun" THEN AliyunMaxRetries ELSE ModelScopeMaxRetries

Polling == h.pc \in {"aliyun_poll", "modelscope_poll"}

\* C9: the poller hands over the result URL at the first poll that brings the
\* platform's success token with a URL, having issued exactly that many polls
\* and none afterwards (no FAILED reply and no other such reply was received);
\* while it polls, no reply received was terminal; and when every poll up to
\* the cap was non-terminal it ends as timed out after exactly cap polls, with
\* a nil result and never a success response.
C9_PollerStopsAtFirstSuccess ==
    /\ Polling => h.okSeen = 0 /\ h.failSeen = 0 /\ h.polls = h.i
    /\ h.okSeen <= 1
    /\ h.okSeen = 1 <=> h.out = "url"
    /\ h.out = "url" =>
          /\ h.failSeen = 0
          /\ h.polls = h.i + 1
          /\ h.polls <= MaxRetriesOf(h.Platform)
    /\ h.out = "timeout" =>
          /\ h.polls = MaxRetriesOf(h.Platform)
          /\ h.okSeen = 0 /\ h.failSeen = 0
          /\ result = Nil
          /\ h.pc = "done" => resp.status # 200

\* The first poller received its success token with a URL at the third poll.
C9_Witness ==
    /\ h.Platform = "aliyun"
    /\ h.out = "url"
    /\ h.polls = 3
    /\ h.pc = "download"

\* The task of the current request has reached a terminal state: a reply with
\* the platform's success token and a URL, a FAILED reply, or the attempt cap.
TaskTerminal == h.okSeen > 0 \/ h.failSeen > 0 \/ h.out = "timeout"

\* C10: once the task is terminal, no step of the same request issues another
\* status request or changes how the task ended, and a task that failed or
\* timed out keeps its nil result.
C10_TerminalIsFinal ==
    [][(TaskTerminal /\ h.pc # "done") =>
          /\ h'.polls = h.polls
          /\ h'.okSeen = h.okSeen /\ h'.failSeen = h.failSeen
          /\ h.out # "none" /\ h'.out = h.out
          /\ h.out \in {"failed", "timeout"} => result' = Nil]_vars

\* The second poller's task was reported FAILED at its second poll and the
\* request was answered with the failure.
C10_Witness ==
    /\ h.Platform = "modelscope"
    /\ h.pc = "done"
    /\ h.failSeen = 1
    /\ h.polls = 2
    /\ h.out = "failed"
    /\ resp = GenerateFailedResponse

----------------------------------------------------------------------------
(* Claims about the artifact files and the images table *)

Generated == last.op = "generate"
Succeeded == Generated /\ last.result # Nil
FetchTried == Generated /\ last.fetch # "none"

\* The artifact path scheme for provider key k on 2026-02-20 at 21:56:54:
\* {outputRoot}/2026-02-20/{k}/215654.png.
SchemePath(k) ==
    <<OutputDir, <<2, 0, 2, 6, "-", 0, 2, "-", 2, 0>>, k,
      <<2, 1, 5, 6, 5, 4, ".png">>>>

\* C11, as claimed: a successful generation through provider key k returns the
\* artifact path {outputRoot}/{YYYY-MM-DD}/{k}/{HHMMSS}.png, whose directory
\* component is the key of the provider that was requested.
C11_PathUnderRequestedKey ==
    Succeeded => last.result[1].FilePath = SchemePath(last.platform)

\* C12, as claimed: when the fetch of the remote artifact fails (transport
\* error, or a body that cannot be read to its end) or the fetched body is
\* empty, the persist step reports an error, the generation is answered as a
\* failure and the step has written no file, empty or partial, at the target
\* path.
C12_FetchFailureLeavesNoFile ==
    (FetchTried /\ (last.fetch \in {"transport", "short", "empty"}
                       \/ last.data = <<>>))
        => /\ last.result = Nil
           /\ last.code = 500
           /\ last.wrote = "none"

GeneratorOutcomes ==
    {results[j] : j \in 1..Len(results)} \cup {single[j] : j \in 1..Len(single)}

C19_RequestModelOverrides ==
    (Generated /\ last.sent # <<>>) =>
        LET wanted == IF last.model # "" THEN last.model
                      ELSE DefaultModel(last.platform)
        IN  /\ last.sent[1] = wanted
            /\ last.result # Nil => last.result[1].Model = wanted

\* C20, as claimed: after any sequence of generate, moderate and delete
\* operations the status of every image record is pending, approved or
\* rejected.
C20_StatusInVocabulary ==
    \A id \in DOMAIN records :
        records[id].Status \in {"pending", "approved", "rejected"}

----------------------------------------------------------------------------
(* Claims about publishing *)

Dispatched == pub.pc = "done" /\ pub.code = 200
Keys(seq) == {seq[j] : j \in 1..Len(seq)}
PublishedPath == records[pub.imageID].Path

\* C14: a publish request for an approved image that lists platform keys,
\* registered or not, is answered with a mapping holding exactly one entry per
\* distinct listed key; every listed key is dispatched, in the order listed,
\* whatever the earlier ones returned; and each entry is what that platform's
\* own adapter returns (the destination, or the error text), or the
\* unsupported-platform error for a key that is not registered.
C14_OneEntryPerRequestedKey ==
    (Dispatched /\ pub.requested # <<>>) =>
        /\ DOMAIN pub.results = Keys(pub.requested)
        /\ pub.calls = pub.requested
        /\ \A k \in DOMAIN pub.results :
              pub.results[k] =
                  IF k \in DOMAIN mgr
                  THEN Entry(AdapterPublish(mgr[k], PublishedPath, files))
                  ELSE <<"failed", "unsupported platform">>

\* A request for two platforms was answered: the first one's adapter failed,
\* the second one's succeeded.
C14_Witness ==
    /\ Dispatched
    /\ Len(pub.requested) = 2
    /\ pub.requested[1] \in DOMAIN mgr
    /\ pub.requested[2] \in DOMAIN mgr
    /\ pub.results[pub.requested[1]][1] = "failed"
    /\ pub.results[pub.requested[2]][1] = "url"

\* C15: a publish request for an approved image with an empty or absent
\* platform list dispatches to exactly the registered platforms: each
\* registered platform's adapter is invoked once, and the key set of the
\* result mapping is the set of registered platform keys.
C15_EmptyListMeansAllRegistered ==
    (Dispatched /\ pub.requested = <<>>) =>
        /\ DOMAIN pub.results = DOMAIN mgr
        /\ Keys(pub.calls) = DOMAIN mgr
        /\ Len(pub.calls) = Cardinality(DOMAIN mgr)

\* A request without platforms was answered by a server with three registered
\* platforms, one of which failed.
C15_Witness ==
    /\ Dispatched
    /\ pub.requested = <<>>
    /\ Cardinality(DOMAIN mgr) = 3
    /\ \E k \in DOMAIN pub.results : pub.results[k][1] = "failed"
    /\ \E k \in DOMAIN pub.results : pub.results[k][1] = "url"

RegisteredKeys == {regLog[j].Type : j \in 1..Len(regLog)}
LastRegistered(k) ==
    LET js == {j \in 1..Len(regLog) : regLog[j].Type = k}
    IN  regLog[CHOOSE j \in js : \A a \in js : a <= j]

\* C16: after any sequence of Register calls the registry holds exactly one
\* adapter per registered key, the one registered last for that key; a
\* Register call changes no entry under another key; and registering the
\* adapter a key already holds leaves the registry as it was.
C16_LastWriteWins ==
    /\ [](/\ DOMAIN mgr = RegisteredKeys
          /\ \A k \in DOMAIN mgr : mgr[k] = LastRegistered(k))
    /\ [][regLog' # regLog =>
             LET p == regLog'[Len(regLog')]
             IN  /\ \A k \in DOMAIN mgr :
                       k # p.Type => (k \in DOMAIN mgr' /\ mgr'[k] = mgr[k])
                 /\ (p.Type \in DOMAIN mgr /\ mgr[p.Type] = p) => mgr' = mgr]_vars

\* A key was registered twice with different adapters, another key in between.
C16_Witness ==
    /\ Len(regLog) = 3
    /\ regLog[1].Type = regLog[3].Type
    /\ regLog[1] # regLog[3]
    /\ regLog[2].Type # regLog[1].Type
    /\ mgr[regLog[1].Type] = regLog[3]
    /\ mgr[regLog[2].Type] = regLog[2]

----------------------------------------------------------------------------
(* Claims about the replies a poller receives *)

\* The step issues one status request.
PollStep == Polling /\ h'.polls = h.polls + 1

\* The platform's own success token.
TokenOf(platform) == IF platform = "aliyun" THEN "SUCCEEDED" ELSE "SUCCEED"

\* C21: a status request that ends in a transport error does not end the poll
\* loop and uses up exactly one attempt; the request after a transport error
\* is honoured when it brings a terminal status (the result URL goes to the
\* download, a FAILED task ends the loop); and the status requests issued,
\* failed ones included, never exceed the attempt cap.
C21_TransportErrorUsesOneAttempt ==
    /\ [](h.Platform \in {"aliyun", "modelscope"} =>
             /\ h.polls <= MaxRetriesOf(h.Platform)
             /\ h.i <= MaxRetriesOf(h.Platform))
    /\ [][(PollStep /\ h'.reply.err) =>
             /\ h'.pc = h.pc
             /\ h'.i = h.i + 1
             /\ h'.out = "none"
             /\ h'.okSeen = h.okSeen /\ h'.failSeen = h.failSeen]_vars
    /\ [][(PollStep /\ h.reply.err /\ ~h'.reply.err) =>
             /\ (h'.reply.status = TokenOf(h.Platform) /\ h'.reply.hasURL)
                    => h'.pc = "download" /\ h'.out = "url"
             /\ h'.reply.status = "FAILED"
                    => h'.pc = "respond" /\ h'.out = "failed"]_vars

\* The second poller got no reply to its second status request: two attempts
\* are used and it is still polling.
C21_Witness ==
    /\ h.pc = "modelscope_poll"
    /\ h.reply.err
    /\ h.polls = 2
    /\ h.i = 2
    /\ h.out = "none"

\* The reply carries a status outside the platform's vocabulary: empty (also
\* what a body that does not parse leaves), another word, or the other
\* platform's success token.
OutsideVocabulary(platform, r) ==
    ~r.err /\ r.status \notin {TokenOf(platform), "FAILED"}

\* C22: a status reply whose status is empty, unparseable or outside the
\* platform's own vocabulary, the other platform's success token included, is
\* treated as pending: the loop neither fails nor succeeds on it and goes on to
\* its next attempt.
C22_UnknownStatusIsPending ==
    [][(PollStep /\ OutsideVocabulary(h.Platform, h'.reply)) =>
          /\ h'.pc = h.pc
          /\ h'.i = h.i + 1
          /\ h'.out = "none" /\ h'.cause = "none"
          /\ h'.okSeen = 0 /\ h'.failSeen = 0
          /\ result' = Nil /\ resp' = NoResponse]_vars

\* The first poller, whose token is SUCCEEDED, received SUCCEED with a URL at
\* its first status request and polls on.
C22_Witness ==
    /\ h.pc = "aliyun_poll"
    /\ h.reply = [err |-> FALSE, status |-> "SUCCEED", hasURL |-> TRUE]
    /\ h.polls = 1
    /\ h.i = 1

\* The reply received last carries the platform's success token and no URL.
BareSuccess ==
    /\ h.Platform \in {"aliyun", "modelscope"}
    /\ ~h.reply.err
    /\ h.reply.status = TokenOf(h.Platform)
    /\ ~h.reply.hasURL

\* C23, as claimed: a status reply with the platform's success token and an
\* empty result-URL list makes the poller stop at once and return a failure;
\* the poller does not go on to another attempt.
C23_SuccessWithoutURLFails ==
    BareSuccess =>
        /\ h.pc \in {"respond", "done"}
        /\ h.cause # "none"
        /\ result = Nil

\* C24, as claimed: a request whose poll loop used up its attempts is answered
\* with an outcome, not a success, that the caller can tell apart from the
\* outcome of a task the provider reported FAILED and from that of a failed
\* submission (GenerateFailedResponse is what handleGenerate writes for those
\* two).
C24_TimeoutDistinguishable ==
    (h.out = "timeout" /\ h.pc = "done") =>
        /\ resp.status # 200
        /\ resp # GenerateFailedResponse

\* C25: the poll loop always terminates.  Whatever the replies and transport
\* errors, a poller that has started leaves its loop, after at most 30 status
\* requests for the platform polled every 2 seconds and at most 60 for the one
\* polled every 3 seconds, and it has slept exactly one interval before each
\* status request.
C25_PollLoopTerminates ==
    /\ [](h.Platform = "aliyun" =>
             h.polls <= 30 /\ h.i <= 30 /\ h.slept = 2 * h.polls)
    /\ [](h.Platform = "modelscope" =>
             h.polls <= 60 /\ h.i <= 60 /\ h.slept = 3 * h.polls)
    /\ [](Polling => h.polls = h.i)
    /\ (Polling ~> ~Polling)

\* The second poller ran out of attempts: 60 status requests, 180 seconds
\* slept, and the request was answered.
C25_Witness ==
    /\ h.Platform = "modelscope"
    /\ h.out = "timeout"
    /\ h.polls = 60
    /\ h.slept = 180
    /\ h.pc = "done"

----------------------------------------------------------------------------
(* Claims about task submission and the synchronous adapter *)

Asynchronous == h.Platform \in {"aliyun", "modelscope"}

\* C26: for an asynchronous platform, status polling starts only after the
\* task submission has returned a non-empty task identifier; when the
\* submission fails by transport error or returns no task identifier the
\* outcome is a failure and no status request is issued; and every status
\* request of an invocation carries the task identifier that invocation's
\* submission returned.
C26_PollsOnlyAfterTaskID ==
    /\ (Asynchronous /\ (Polling \/ h.polls > 0)) =>
          /\ "submit" \in h.remote
          /\ h.posts = 1
          /\ h.taskID # ""
          /\ h.taskID = TaskIDOf(h.Platform)
          /\ h.polled \subseteq {h.taskID}
          /\ h.polls > 0 => h.polled = {h.taskID}
    /\ h.cause = "submit" =>
          /\ h.polls = 0
          /\ h.polled = {}
          /\ "poll" \notin h.remote
          /\ result = Nil
          /\ h.pc = "done" => resp = GenerateFailedResponse

\* The first poller has issued two status requests, both for the task its
\* submission created.
C26_Witness ==
    /\ h.pc = "aliyun_poll"
    /\ h.taskID = "task-a"
    /\ h.polled = {"task-a"}
    /\ h.polls = 2
    /\ h.posts = 1

Synchronous == h.Platform # "" /\ ~Asynchronous /\ LookupOK(cfg, h.Platform)

\* C27: one invocation of the synchronous adapter issues exactly one remote
\* generation request and never another; when that request ends in a transport
\* error, a status other than success or an empty result list, the invocation
\* is a failure, no download of an artifact is attempted and no file is
\* written.
C27_SyncAdapterAtMostOnce ==
    Synchronous =>
        /\ h.posts <= 1
        /\ h.posts = 1 <=> h.pc \in {"download", "respond", "done"}
        /\ h.remote \subseteq {"generate"}
        /\ h.polls = 0
        /\ h.answer \in {"transport", "status", "empty"} =>
              /\ h.pc \in {"respond", "done"}
              /\ h.gets = 0
              /\ h.writes = 0
              /\ result = Nil
              /\ h.pc = "done" => resp = GenerateFailedResponse

\* The generation request of the synchronous adapter came back with status
\* 200 and an empty data list; the request was answered as failed after that
\* one remote request and without a download.
C27_Witness ==
    /\ h.Platform = "siliconflow"
    /\ h.answer = "empty"
    /\ h.posts = 1
    /\ h.gets = 0
    /\ h.pc = "done"
    /\ resp = GenerateFailedResponse

----------------------------------------------------------------------------
(* Claims about the publish gate, artifact paths and PublishAll *)

\* The step takes a publish request in.
PublishArrives == pub.pc \in {"idle", "done"} /\ pub' # pub

\* C28: under any sequence of generate, moderate, delete and publish requests,
\* a publish request for an image whose record is missing (never created, or
\* deleted) or whose status is not "approved" when the request comes in is
\* answered with an error and dispatches to no platform; platforms are called
\* only for a request whose record was read as approved.
C28_OnlyApprovedIsPublished ==
    /\ [][PublishArrives =>
             ((pub'.imageID \notin DOMAIN records
                  \/ records[pub'.imageID].Status # "approved") =>
                 /\ pub'.pc = "done"
                 /\ pub'.code \in {400, 404}
                 /\ pub'.platformsToUse = <<>>
                 /\ pub'.calls = <<>>
                 /\ pub'.results = <<>>)]_vars
    /\ [][(pub'.calls # pub.calls /\ pub'.calls # <<>>) =>
             /\ pub.pc = "loop"
             /\ pub.record # <<>>
             /\ pub.record[1].Status = "approved"]_vars
    /\ [](pub.code \in {400, 404} => pub.calls = <<>> /\ pub.results = <<>>)

\* The first image was generated, approved and then deleted; the publish
\* request for it that followed was answered 404 and called no platform.
C28_Witness ==
    /\ nextID = 2
    /\ 1 \notin DOMAIN records
    /\ last.op = "delete"
    /\ pub.pc = "done"
    /\ pub.imageID = 1
    /\ pub.code = 404
    /\ pub.calls = <<>>

\* C29, as claimed: two successful generations never return the same artifact
\* path: no two image records refer to the same file, also when the two
\* requests name the same provider and are handled within the same second.
C29_PathsNeverShared ==
    \A i, j \in DOMAIN records :
        i # j => records[i].Path # records[j].Path

\* C30, as claimed: PublishAll calls the adapter of every registered platform
\* exactly once, whatever the earlier ones returned, and the mapping it
\* returns holds exactly one entry per registered platform: as many entries as
\* there are registered platforms.
C30_OneEntryPerRegisteredPlatform ==
    pub.pc = "returned" =>
        /\ Len(pub.calls) = Cardinality(DOMAIN mgr)
        /\ \A t \in DOMAIN mgr : \E j \in 1..Len(pub.calls) : pub.calls[j] = t
        /\ Cardinality(DOMAIN pub.results) = Cardinality(DOMAIN mgr)

====
